---------------------------- MODULE Spec2Model ----------------------------
(***************************************************************************)
(* DVB text handling of tv_grab_dvb_plus (dvbtext.c, carried in            *)
(* src/src/constants.h): convert_text resolves the character set of a raw  *)
(* text field from its leading byte, converts the content to UTF-8 with    *)
(* iconv through a cached conversion descriptor, and xmlify quotes the XML *)
(* entities.                                                               *)
(*                                                                         *)
(* Bytes are integers 0..255.  A C string argument is a sequence of bytes  *)
(* (the memory of the field); the byte after its last element is the       *)
(* terminating zero, and what lies behind that is not the field's.         *)
(* Character set names are strings.                                        *)
(***************************************************************************)
EXTENDS Integers, Sequences, FiniteSets, TLC

VARIABLES
    cs_old,     \* static char cs_old[16]: the cached character set name
    cd,         \* static iconv_t cd: "NULL", "FAILED" ((iconv_t) -1) or the
                \* source character set the descriptor was opened for
    engine,     \* the source character sets of the descriptors now open
    buf,        \* static char buf[MAX * 6], as the string it holds
    result,     \* static char result[MAX * 6], as the string it holds
    pc,         \* "running", "exited" (exit(1)) or "crashed"
    last,       \* what the most recent call did (see NoCall)
    calls,      \* number of convert_text / xmlify calls made
    opens,      \* number of iconv_open calls made
    convs,      \* number of calls that reached the iconv step
    changes,    \* number of name changes between consecutive conversions
    prevName    \* the name the previous conversion resolved

vars == <<cs_old, cd, engine, buf, result, pc, last, calls, opens, convs,
          changes, prevName>>

-----------------------------------------------------------------------------
(* Bounds of the exploration *)

MaxCalls == 3       \* calls in one behaviour of Spec
MaxXmlLen == 3      \* length of the strings handed to xmlify in SpecXml
Slack == 2          \* the long fields have MAX - Slack .. MAX content bytes

-----------------------------------------------------------------------------
(* Constants of the program *)

MAX == 1024

BufSize == MAX * 6

iso6937_encoding == "ISO6937"

NULL == "NULL"

-----------------------------------------------------------------------------
(* Memory of a C string *)

\* s[i] for a pointer at offset off into the field mem; the byte after the
\* field is its terminating zero.
At(mem, off, i) ==
    IF off + i < Len(mem) THEN mem[off + i + 1] ELSE 0

\* index (1-based, from 0) of the first zero byte of mem, or 0
FirstZero(mem) ==
    IF \E k \in 1..Len(mem) : mem[k] = 0
    THEN CHOOSE k \in 1..Len(mem) : mem[k] = 0 /\ \A j \in 1..(k - 1) : mem[j] # 0
    ELSE 0

\* the bytes strlen() counts from the start of mem
CString(mem) ==
    IF FirstZero(mem) = 0 THEN mem ELSE SubSeq(mem, 1, FirstZero(mem) - 1)

\* the C string at s = mem + off.  Behind the terminating zero of the field
\* the bytes read are whatever memory follows: stray.
StringAt(mem, off, stray) ==
    IF off <= Len(mem) THEN CString(SubSeq(mem, off + 1, Len(mem))) ELSE stray

Run(b, n) == [k \in 1..n |-> b]

-----------------------------------------------------------------------------
(* Character set resolution *)

NoLog == <<>>

Warning(b) == [level |-> "WARNING", text |-> "reserved encoding", byte |-> b]

Forbidden(b) == [level |-> "ERROR", text |-> "forbidden char", byte |-> b]

OpenFailed == [level |-> "ERROR", text |-> "iconv_open() failed", byte |-> 0]

\* snprintf(t, 16, d, i) for the one template of the table
snprintf(d, i) ==
    IF d = "ISO-8859-%d" THEN "ISO-8859-" \o ToString(i) ELSE d

\* Each handler gets the pointer s (field memory and offset), the data d of
\* its slot and the outcome ub of its reads outside the field, and yields
\* its return code rc, the name t it wrote ("" when it wrote none), the
\* offset of s afterwards, what it logged, and whether it faulted.
encoding_default(s, d, ub) ==
    [rc |-> 0, t |-> iso6937_encoding, off |-> s.off, log |-> NoLog, fault |-> FALSE]

encoding_fixed(s, d, ub) ==
    [rc |-> 0, t |-> d, off |-> s.off + 1, log |-> NoLog, fault |-> FALSE]

encoding_freesat(s, d, ub) ==
    [rc |-> 0, t |-> d, off |-> s.off, log |-> NoLog, fault |-> FALSE]

\* *s[1] is *(s[1]): s[1] and s[2] are the two pointers stored behind the
\* caller's pointer variable, not bytes of the field.  Reading through them
\* faults (ub.fault) or yields whatever the build left there: ub.hi, ub.lo.
encoding_variable(s, d, ub) ==
    LET i == ub.hi * 256 + ub.lo
    IN  [rc |-> 0, t |-> snprintf(d, i), off |-> s.off + 3, log |-> NoLog,
         fault |-> ub.fault]

\* encoding_reserved without its "return 1"
encoding_reserved_returns0(s, d, ub) ==
    [rc |-> 0, t |-> "", off |-> s.off,
     log |-> <<Warning(At(s.mem, s.off, 0))>>, fault |-> FALSE]

\* *s[0] is **s, the first byte of the field.
encoding_reserved(s, d, ub) ==
    [rc |-> 1, t |-> "", off |-> s.off,
     log |-> <<Warning(At(s.mem, s.off, 0))>>, fault |-> FALSE]

encoding ==
    [i \in 0..31 |->
        CASE i = 1  -> [handler |-> "encoding_fixed", data |-> "ISO-8859-5"]
          [] i = 2  -> [handler |-> "encoding_fixed", data |-> "ISO-8859-6"]
          [] i = 3  -> [handler |-> "encoding_fixed", data |-> "ISO-8859-7"]
          [] i = 4  -> [handler |-> "encoding_fixed", data |-> "ISO-8859-8"]
          [] i = 5  -> [handler |-> "encoding_fixed", data |-> "ISO-8859-9"]
          [] i = 6  -> [handler |-> "encoding_fixed", data |-> "ISO-8859-10"]
          [] i = 7  -> [handler |-> "encoding_fixed", data |-> "ISO-8859-11"]
          [] i = 8  -> [handler |-> "encoding_fixed", data |-> "ISO-8859-12"]
          [] i = 9  -> [handler |-> "encoding_fixed", data |-> "ISO-8859-13"]
          [] i = 10 -> [handler |-> "encoding_fixed", data |-> "ISO-8859-14"]
          [] i = 11 -> [handler |-> "encoding_fixed", data |-> "ISO-8859-15"]
          [] i = 16 -> [handler |-> "encoding_variable", data |-> "ISO-8859-%d"]
          [] i = 17 -> [handler |-> "encoding_fixed", data |-> "ISO-10646/UCS2"]
          [] i = 18 -> [handler |-> "encoding_fixed", data |-> "KSC_5601"]
          [] i = 19 -> [handler |-> "encoding_fixed", data |-> "GB_2312-80"]
          [] i = 20 -> [handler |-> "encoding_fixed", data |-> "BIG5"]
          [] i = 21 -> [handler |-> "encoding_fixed", data |-> "ISO-10646/UTF8"]
          [] i = 31 -> [handler |-> "encoding_freesat", data |-> "ISO-10646/UTF8"]
          [] OTHER  -> [handler |-> "encoding_reserved", data |-> NULL]]

\* encoding[i].handler(cs_new, &s, encoding[i].data)
CallHandler(e, s, ub) ==
    CASE e.handler = "encoding_fixed"    -> encoding_fixed(s, e.data, ub)
      [] e.handler = "encoding_variable" -> encoding_variable(s, e.data, ub)
      [] e.handler = "encoding_freesat"  -> encoding_freesat(s, e.data, ub)
      [] e.handler = "encoding_reserved" -> encoding_reserved(s, e.data, ub)

\* Resolve with the test i <= 0x1F, which lets 0x1F reach its slot
Resolve_inclusive(raw, ub) ==
    LET s == [mem |-> raw, off |-> 0]
        i == At(raw, 0, 0)
    IN  IF i <= 31
        THEN CallHandler(encoding[i], s, ub)
        ELSE encoding_default(s, NULL, ub)

\* The first statements of convert_text: the handler chosen by s[0].
Resolve(raw, ub) ==
    LET s == [mem |-> raw, off |-> 0]
        i == At(raw, 0, 0)
    IN  IF i < 31
        THEN CallHandler(encoding[i], s, ub)
        ELSE encoding_default(s, NULL, ub)

-----------------------------------------------------------------------------
(* Strings built piece by piece *)

\* pieces[lo] \o ... \o pieces[hi], the pieces taken in order.  Evaluated by
\* halves, so that a loop over a field of MAX bytes nests 10 deep, not MAX.
RECURSIVE Flatten(_, _, _)
Flatten(pieces, lo, hi) ==
    IF lo > hi THEN <<>>
    ELSE IF lo = hi THEN pieces[lo]
    ELSE LET mid == (lo + hi) \div 2
         IN  Flatten(pieces, lo, mid) \o Flatten(pieces, mid + 1, hi)

-----------------------------------------------------------------------------
(* The conversion engine: iconv_open("UTF-8", name) and iconv()            *)
(* The engine is the C library's.  Its tables are represented for          *)
(* ISO6937, ISO-8859-5, ISO-8859-7, ISO-8859-11 and UTF-8; under any other *)
(* name a byte stands for the code point of the same number, as in         *)
(* ISO-8859-1.                                                             *)

\* the UTF-8 encoding of a code point below 65536
Utf8(cp) ==
    IF cp < 128 THEN <<cp>>
    ELSE IF cp < 2048 THEN <<192 + (cp \div 64), 128 + (cp % 64)>>
    ELSE <<224 + (cp \div 4096), 128 + ((cp \div 64) % 64), 128 + (cp % 64)>>

IsCont(b) == b >= 128 /\ b <= 191

\* ISO 6937: a non-spacing diacritic (0xC1..0xCF) and the letter after it
\* make one character; 0 when the pair makes none.
Precomposed(d, l) ==
    CASE d = 195 /\ l = 65  -> 194      \* circumflex, A
      [] d = 195 /\ l = 72  -> 292      \* circumflex, H
      [] d = 194 /\ l = 65  -> 193      \* acute, A
      [] d = 194 /\ l = 101 -> 233      \* acute, e
      [] OTHER -> 0

IsDiacritic(b) == b >= 193 /\ b <= 207

\* the code point of a single byte b >= 128 (0: none)
CodePoint(name, b) ==
    CASE name = "ISO6937" ->
            IF b = 169 THEN 8216 ELSE IF b = 225 THEN 198
            ELSE IF b = 164 THEN 0 ELSE b
      [] name = "ISO-8859-5"  -> IF b > 160 THEN 1024 + (b - 160) ELSE b
      [] name = "ISO-8859-7"  -> IF b > 160 THEN 880 + (b - 160) ELSE b
      [] name = "ISO-8859-11" -> IF b > 160 THEN 3584 + (b - 160) ELSE b
      [] OTHER -> b

Char(bytes) == [kind |-> "char", out |-> bytes]
Part == [kind |-> "part", out |-> <<>>]
Bad == [kind |-> "bad", out |-> <<>>]

\* what the byte at position i of the input is to the engine: the start of
\* a character (with its UTF-8 bytes), a later byte of one, or illegal here.
Piece(name, in, i) ==
    LET n == Len(in)
        b == in[i]
        follows(k) == i + k <= n /\ IsCont(in[i + k])
    IN  IF name = "ISO-10646/UTF8"
        THEN CASE b < 128 -> Char(<<b>>)
               [] b >= 194 /\ b <= 223 ->
                    IF follows(1) THEN Char(<<b, in[i + 1]>>) ELSE Bad
               [] b >= 224 /\ b <= 239 ->
                    IF follows(1) /\ follows(2)
                    THEN Char(<<b, in[i + 1], in[i + 2]>>) ELSE Bad
               [] IsCont(b) ->
                    IF \/ i > 1 /\ in[i - 1] >= 194 /\ in[i - 1] <= 239
                       \/ i > 2 /\ in[i - 2] >= 224 /\ in[i - 2] <= 239
                                /\ IsCont(in[i - 1])
                    THEN Part ELSE Bad
               [] OTHER -> Bad
        ELSE IF name = "ISO6937" /\ IsDiacritic(b)
        THEN IF i < n /\ Precomposed(b, in[i + 1]) # 0
             THEN Char(Utf8(Precomposed(b, in[i + 1]))) ELSE Bad
        ELSE IF name = "ISO6937" /\ i > 1 /\ IsDiacritic(in[i - 1])
                /\ Precomposed(in[i - 1], b) # 0
        THEN Part
        ELSE IF b < 128 THEN Char(<<b>>)
        ELSE IF CodePoint(name, b) = 0 THEN Bad
        ELSE Char(Utf8(CodePoint(name, b)))

\* iconv(cd, &inbuf, &inbytesleft, &outbuf, &outbytesleft) with a descriptor
\* opened for name: the bytes written.  Conversion stops at the first
\* illegal byte, and before the first character that no longer fits.
iconv(name, in, outbytesleft) ==
    LET n == Len(in)
        bad == {i \in 1..n : Piece(name, in, i).kind = "bad"}
        stop == IF bad = {} THEN n + 1
                ELSE CHOOSE i \in bad : \A j \in bad : i <= j
        pieces == [i \in 1..(stop - 1) |-> Piece(name, in, i).out]
        all == Flatten(pieces, 1, stop - 1)
        fits(k) == Len(Flatten(pieces, 1, k)) <= outbytesleft
    IN  IF Len(all) <= outbytesleft THEN all
        ELSE LET k == CHOOSE k \in 0..(stop - 1) :
                        /\ fits(k)
                        /\ \A j \in (k + 1)..(stop - 1) : ~fits(j)
             IN  Flatten(pieces, 1, k)

-----------------------------------------------------------------------------
(* xmlify *)

\* the switch with the semicolon of &amp; left out
XmlCase_short_amp(c) ==
    CASE c = 34 -> [out |-> <<38, 113, 117, 111, 116, 59>>, log |-> NoLog]
      [] c = 38 -> [out |-> <<38, 97, 109, 112>>, log |-> NoLog]
      [] c = 60 -> [out |-> <<38, 108, 116, 59>>, log |-> NoLog]
      [] c = 62 -> [out |-> <<38, 103, 116, 59>>, log |-> NoLog]
      [] (c >= 0 /\ c <= 8) \/ (c >= 11 /\ c <= 31) \/ c = 127 ->
            [out |-> <<c>>, log |-> <<Forbidden(c)>>]
      [] OTHER -> [out |-> <<c>>, log |-> NoLog]

\* the switch with a break after the log_message of a forbidden byte
XmlCase_break(c) ==
    CASE c = 34 -> [out |-> <<38, 113, 117, 111, 116, 59>>, log |-> NoLog]
      [] c = 38 -> [out |-> <<38, 97, 109, 112, 59>>, log |-> NoLog]
      [] c = 60 -> [out |-> <<38, 108, 116, 59>>, log |-> NoLog]
      [] c = 62 -> [out |-> <<38, 103, 116, 59>>, log |-> NoLog]
      [] (c >= 0 /\ c <= 8) \/ (c >= 11 /\ c <= 31) \/ c = 127 ->
            [out |-> <<>>, log |-> <<Forbidden(c)>>]
      [] OTHER -> [out |-> <<c>>, log |-> NoLog]

\* one pass of the switch: the bytes stored through r and what is logged
XmlCase(c) ==
    CASE c = 34 -> [out |-> <<38, 113, 117, 111, 116, 59>>, log |-> NoLog, fault |-> FALSE]
      [] c = 38 -> [out |-> <<38, 97, 109, 112, 59>>, log |-> NoLog, fault |-> FALSE]
      [] c = 60 -> [out |-> <<38, 108, 116, 59>>, log |-> NoLog, fault |-> FALSE]
      [] c = 62 -> [out |-> <<38, 103, 116, 59>>, log |-> NoLog, fault |-> FALSE]
      [] (c >= 0 /\ c <= 8) \/ (c >= 11 /\ c <= 31) \/ c = 127 ->
            [out |-> <<c>>, log |-> <<Forbidden(c)>>]
      [] OTHER -> [out |-> <<c>>, log |-> NoLog, fault |-> FALSE]

\* xmlify(s): the loop runs over the strlen(s) bytes before the first zero;
\* out is the string left in result, log what was logged, and top the index
\* in result of the last byte written, the terminating zero.
xmlify(s) ==
    LET str == CString(s)
        n == Len(str)
        out == Flatten([b \in 1..n |-> XmlCase(str[b]).out], 1, n)
    IN  [out |-> out,
         log |-> Flatten([b \in 1..n |-> XmlCase(str[b]).log], 1, n),
         top |-> Len(out)]

-----------------------------------------------------------------------------
(* The calls *)

\* the record of a call: the function, its argument s, s[0], the handler's
\* return code, name and offset, cs_old as the call found it, whether
\* iconv_open was called, the descriptor iconv ran with, the most
\* descriptors open at once, the decoder's string, the log, the string
\* returned, and the highest index written in buf and in result (-1: none).
NoCall ==
    [fn |-> "none", s |-> <<>>, i |-> 0, rc |-> 0, cs_new |-> "", off |-> 0,
     before |-> "", opened |-> FALSE, used |-> "none", peak |-> 0,
     dec |-> <<>>, log |-> NoLog, ret |-> <<>>, bufTop |-> -1,
     resultTop |-> -1]

NoUB == [fault |-> FALSE, hi |-> 0, lo |-> 0, tail |-> <<>>]

\* The outcomes of the reads outside the field that a call on s makes: none
\* unless s[0] is 0x10; then the two bytes read through the stray pointers,
\* or a fault, and, when the field ends before s + 3, the string found there.
UB(s) ==
    IF At(s, 0, 0) # 16 THEN {NoUB}
    ELSE {[NoUB EXCEPT !.fault = TRUE]} \cup
         {[fault |-> FALSE, hi |-> h, lo |-> l, tail |-> t] :
            h \in {0, 1}, l \in {5, 7},
            t \in IF Len(s) < 3 THEN {<<>>, <<65>>} ELSE {<<>>}}

\* freesat_huffman_to_string(s, strlen(s)): the strings the decoder can
\* return for a field; it is called only when s[0] is 0x1F.
Decoded(s) ==
    IF At(s, 0, 0) # 31 THEN {<<>>}
    ELSE {<<>>, <<72, 105>>, <<34, 195, 169>>}

\* the block without its strncpy(cs_old, cs_new, 16)
Reopen_no_strncpy(old, h, eng, name, ok) ==
    IF old = name
    THEN [cs_old |-> old, cd |-> h, engine |-> eng, opened |-> FALSE,
          failed |-> FALSE, peak |-> Cardinality(eng)]
    ELSE LET closed == IF h # NULL THEN eng \ {h} ELSE eng
         IN  IF ok
             THEN [cs_old |-> old, cd |-> name, engine |-> closed \cup {name},
                   opened |-> TRUE, failed |-> FALSE,
                   peak |-> Cardinality(closed) + 1]
             ELSE [cs_old |-> old, cd |-> "FAILED", engine |-> closed,
                   opened |-> TRUE, failed |-> TRUE,
                   peak |-> Cardinality(closed)]

\* the block without its iconv_close(cd)
Reopen_no_close(old, h, eng, name, ok) ==
    IF old = name
    THEN [cs_old |-> old, cd |-> h, engine |-> eng, opened |-> FALSE,
          failed |-> FALSE, peak |-> Cardinality(eng)]
    ELSE IF ok
         THEN [cs_old |-> name, cd |-> name, engine |-> eng \cup {name},
               opened |-> TRUE, failed |-> FALSE, peak |-> Cardinality(eng) + 1]
         ELSE [cs_old |-> old, cd |-> "FAILED", engine |-> eng,
               opened |-> TRUE, failed |-> TRUE, peak |-> Cardinality(eng)]

\* if (strncmp(cs_old, cs_new, 16)) { ... }: the cache, the descriptor and
\* the open descriptors afterwards; ok is whether iconv_open succeeds.
Reopen(old, h, eng, name, ok) ==
    IF old = name
    THEN [cs_old |-> old, cd |-> h, engine |-> eng, opened |-> FALSE,
          failed |-> FALSE, peak |-> Cardinality(eng)]
    ELSE LET closed == IF h # NULL THEN eng \ {h} ELSE eng
         IN  IF ok
             THEN [cs_old |-> name, cd |-> name, engine |-> closed \cup {name},
                   opened |-> TRUE, failed |-> FALSE,
                   peak |-> Cardinality(closed) + 1]
             ELSE [cs_old |-> old, cd |-> "FAILED", engine |-> closed,
                   opened |-> TRUE, failed |-> TRUE,
                   peak |-> Cardinality(closed)]

\* the outcomes of iconv_open for a call: it is reached only when the name
\* resolved differs from the cached one
OpenOutcomes(r) ==
    IF r.rc = 0 /\ ~r.fault /\ r.t # cs_old THEN BOOLEAN ELSE {TRUE}

convert_text(s, ub, dec, ok) ==
    LET i == At(s, 0, 0)
        r == Resolve(s, ub)
        call == [NoCall EXCEPT !.fn = "convert_text", !.s = s, !.i = i,
                               !.before = cs_old]
    IN  /\ pc = "running"
        /\ calls' = calls + 1
        /\ IF r.fault
           THEN /\ pc' = "crashed"
                /\ last' = call
                /\ UNCHANGED <<cs_old, cd, engine, buf, result, opens, convs,
                               changes, prevName>>
           ELSE IF r.rc # 0
           THEN /\ last' = [call EXCEPT !.rc = r.rc, !.log = r.log]
                /\ UNCHANGED <<cs_old, cd, engine, buf, result, pc, opens,
                               convs, changes, prevName>>
           ELSE LET o == Reopen(cs_old, cd, engine, r.t, ok)
                    in == IF i = 31 THEN dec ELSE StringAt(s, r.off, ub.tail)
                    out == iconv(o.cd, in, BufSize)
                    x == xmlify(out)
                    done == [call EXCEPT !.cs_new = r.t, !.off = r.off,
                                         !.opened = o.opened, !.peak = o.peak,
                                         !.dec = IF i = 31 THEN dec ELSE <<>>]
                IN  /\ cs_old' = o.cs_old
                    /\ cd' = o.cd
                    /\ engine' = o.engine
                    /\ opens' = IF o.opened THEN opens + 1 ELSE opens
                    /\ IF o.failed
                       THEN /\ pc' = "exited"
                            /\ last' = [done EXCEPT !.log = r.log \o <<OpenFailed>>]
                            /\ UNCHANGED <<buf, result, convs, changes, prevName>>
                       ELSE /\ buf' = out
                            /\ result' = x.out
                            /\ convs' = convs + 1
                            /\ changes' = IF convs > 0 /\ prevName # r.t
                                          THEN changes + 1 ELSE changes
                            /\ prevName' = r.t
                            /\ last' = [done EXCEPT !.used = o.cd,
                                                    !.log = r.log \o x.log,
                                                    !.ret = x.out,
                                                    !.bufTop = Len(out),
                                                    !.resultTop = x.top]
                            /\ UNCHANGED pc

\* a call of xmlify by another part of the program
xmlify_call(s) ==
    LET x == xmlify(s)
    IN  /\ pc = "running"
        /\ calls' = calls + 1
        /\ result' = x.out
        /\ last' = [NoCall EXCEPT !.fn = "xmlify", !.s = s, !.before = cs_old,
                                  !.log = x.log, !.ret = x.out,
                                  !.resultTop = x.top]
        /\ UNCHANGED <<cs_old, cd, engine, buf, pc, opens, convs, changes,
                       prevName>>

-----------------------------------------------------------------------------
(* The fields *)

\* the fields of Spec: one or two of each kind of leading byte
Fields ==
    {<<>>, <<12>>, <<22, 65>>, <<1, 72, 105>>, <<5, 65>>, <<60, 51, 62>>,
     <<72, 195, 65>>, <<16, 0, 5, 65>>, <<16, 65>>, <<31, 120>>,
     <<21, 195, 169>>}

Tails == {<<>>, <<65>>, <<0, 5, 65>>, <<195, 169, 34>>}

\* every leading byte, before each tail
WideFields == {<<b>> \o t : b \in 0..255, t \in Tails} \cup {<<>>}

\* fields of about MAX bytes: a selector and a run of one byte
LongFields ==
    {f \in {sel \o Run(b, n) : sel \in {<<>>, <<7>>}, b \in {34, 65, 195},
                                 n \in (MAX - Slack)..MAX} : Len(f) <= MAX}

XmlBytes == {0, 1, 9, 10, 11, 31, 34, 38, 60, 62, 65, 127, 195}

XmlInputs ==
    UNION {[1..k -> XmlBytes] : k \in 0..MaxXmlLen} \cup {<<b>> : b \in 0..255}

-----------------------------------------------------------------------------
(* The specifications *)

Init ==
    /\ cs_old = ""
    /\ cd = NULL
    /\ engine = {}
    /\ buf = <<>>
    /\ result = <<>>
    /\ pc = "running"
    /\ last = NoCall
    /\ calls = 0
    /\ opens = 0
    /\ convs = 0
    /\ changes = 0
    /\ prevName = ""

Call(F) ==
    \E s \in F : \E ub \in UB(s) : \E dec \in Decoded(s) :
        \E ok \in OpenOutcomes(Resolve(s, ub)) : convert_text(s, ub, dec, ok)

\* a process converting up to MaxCalls fields, one after the other
Next == calls < MaxCalls /\ Call(Fields)

Spec == Init /\ [][Next]_vars

\* the first call of a process, on each field of a wide set
NextOne == calls = 0 /\ Call(WideFields \cup LongFields)

SpecOne == Init /\ [][NextOne]_vars

\* xmlify alone, on each string of a set
NextXml == calls = 0 /\ \E s \in XmlInputs : xmlify_call(s)

SpecXml == Init /\ [][NextXml]_vars

-----------------------------------------------------------------------------
(* The properties *)

\* the leading byte of a field (0 for the empty field)
B0(s) == IF s = <<>> THEN 0 ELSE s[1]

Converted == last.fn = "convert_text"

FixedSlots == (1..11) \cup (17..21)

ReservedSlots == {0} \cup (12..15) \cup (22..30)

\* the name tabulated for a fixed slot
FixedName(b) ==
    CASE b \in 1..11 -> "ISO-8859-" \o ToString(b + 4)
      [] b = 17 -> "ISO-10646/UCS2"
      [] b = 18 -> "KSC_5601"
      [] b = 19 -> "GB_2312-80"
      [] b = 20 -> "BIG5"
      [] b = 21 -> "ISO-10646/UTF8"

Entity(b) ==
    CASE b = 34 -> <<38, 113, 117, 111, 116, 59>>       \* &quot;
      [] b = 38 -> <<38, 97, 109, 112, 59>>             \* &amp;
      [] b = 60 -> <<38, 108, 116, 59>>                 \* &lt;
      [] b = 62 -> <<38, 103, 116, 59>>                 \* &gt;
      [] OTHER -> <<b>>

RECURSIVE Entities(_)
Entities(s) ==
    IF s = <<>> THEN <<>> ELSE Entity(Head(s)) \o Entities(Tail(s))

\* an entity starts at position p of out
EntityAt(out, p) ==
    \E b \in {34, 38, 60, 62} :
        /\ p + Len(Entity(b)) - 1 <= Len(out)
        /\ SubSeq(out, p, p + Len(Entity(b)) - 1) = Entity(b)

NoZero(s) == \A k \in 1..Len(s) : s[k] # 0

\* C2: for every string s without a zero byte, xmlify(s) is the entities of
\* the bytes of s in their order, every other byte standing for itself; so
\* the output holds no raw '"', '<' or '>' and each '&' in it starts one of
\* the four entities.
C2_XmlifyIsEntitiesInOrder ==
    (last.fn = "xmlify" /\ NoZero(last.s)) =>
        /\ last.ret = Entities(last.s)
        /\ result = last.ret
        /\ \A p \in 1..Len(result) :
              /\ result[p] \notin {34, 60, 62}
              /\ result[p] = 38 => EntityAt(result, p)

\* xmlify was called on <"& and returned &lt;&quot;&amp;
C2_Witness ==
    /\ last.fn = "xmlify"
    /\ last.s = <<60, 34, 38>>
    /\ Len(last.ret) = 15

IsForbidden(b) == (b >= 1 /\ b <= 8) \/ (b >= 11 /\ b <= 31) \/ b = 127

\* the diagnostics for the forbidden bytes of s (and, with zero, for its
\* zero bytes), one for each occurrence, in their order
Reports(s, zero) ==
    LET hit(b) == IsForbidden(b) \/ (zero /\ b = 0)
        bytes == SelectSeq(s, hit)
    IN  [k \in 1..Len(bytes) |-> Forbidden(bytes[k])]

\* every forbidden byte of s (and, with zero, every zero byte) stands in out
\* at the position its place in s corresponds to
Emitted(s, out, zero) ==
    \A p \in 1..Len(s) :
        (IsForbidden(s[p]) \/ (zero /\ s[p] = 0)) =>
            LET q == Len(Entities(SubSeq(s, 1, p - 1))) + 1
            IN  q <= Len(out) /\ out[q] = s[p]

\* C5 as stated: every byte in 0x00-0x08, 0x0B-0x1F and 0x7F of the input of
\* xmlify, wherever it appears, is reported once for each occurrence and is
\* emitted unchanged at the corresponding position; 0x09 and 0x0A are never
\* reported.
C5_AsStated ==
    last.fn = "xmlify" =>
        /\ last.log = Reports(last.s, TRUE)
        /\ Emitted(last.s, last.ret, TRUE)

\* C5, amended: every byte in 0x01-0x08, 0x0B-0x1F and 0x7F that appears in
\* the input of xmlify before its first zero byte is reported once for each
\* occurrence and is emitted unchanged at the corresponding position; the
\* first zero byte ends the input, and neither it nor a byte behind it is
\* reported or emitted; 0x09 and 0x0A are never reported.
C5_ForbiddenBeforeZero ==
    last.fn = "xmlify" =>
        /\ last.log = Reports(CString(last.s), FALSE)
        /\ Emitted(CString(last.s), last.ret, FALSE)
        /\ \A k \in 1..Len(last.log) : last.log[k].byte \notin {0, 9, 10}
        /\ Len(last.ret) = Len(Entities(CString(last.s)))

\* xmlify was called on a string with 0x7F behind a quote and before a tab:
\* one report, and 0x7F stands behind the six bytes of &quot;
C5_Witness ==
    /\ last.fn = "xmlify"
    /\ last.s = <<34, 127, 9>>
    /\ last.log = <<Forbidden(127)>>
    /\ last.ret[7] = 127

\* C3: for every field of at least 3 bytes led by 0x10, resolution takes
\* idx = (raw[1] << 8) | raw[2] from the field, and yields the name
\* ISO-8859-<idx> and content offset 3.
C3_VariableFromField ==
    (Converted /\ Len(last.s) >= 3 /\ B0(last.s) = 16) =>
        /\ pc # "crashed"
        /\ last.rc = 0
        /\ last.cs_new = "ISO-8859-" \o ToString(last.s[2] * 256 + last.s[3])
        /\ last.off = 3

\* C4: a call whose leading byte maps to a reserved slot returns the empty
\* string, emits one warning, and leaves the cached name, the descriptor and
\* both buffers as they were.
C4_ReservedLeavesState ==
    [][(calls' = calls + 1 /\ last'.fn = "convert_text"
            /\ B0(last'.s) \in ReservedSlots) =>
          /\ last'.ret = <<>>
          /\ last'.log = <<Warning(B0(last'.s))>>
          /\ UNCHANGED <<cs_old, cd, engine, buf, result, pc>>]_vars

\* a reserved field came after a conversion, whose state is still there
C4_Witness ==
    /\ Converted
    /\ last.s = <<12>>
    /\ last.ret = <<>>
    /\ Len(last.log) = 1
    /\ cs_old = "ISO-8859-5"
    /\ cd = "ISO-8859-5"
    /\ result = <<72, 105>>

\* C6: for every field led by 0x1F the decoder's bytes are not transcoded:
\* they reach xmlify unchanged, and the output is xmlify(decompress(raw)).
C6_DecodedNotTranscoded ==
    (Converted /\ B0(last.s) = 31 /\ pc = "running") =>
        /\ buf = last.dec
        /\ last.ret = Entities(last.dec)

\* C7: resolution of the empty field, and of a field led by 0x10 with fewer
\* than 3 bytes, fails: no name is produced, the content offset stays within
\* the field, and the field counts as empty.
C7_InvalidInputFails ==
    (Converted /\ (last.s = <<>> \/ (B0(last.s) = 16 /\ Len(last.s) < 3))) =>
        /\ pc # "crashed"
        /\ last.rc # 0
        /\ last.cs_new = ""
        /\ last.off <= Len(last.s)
        /\ last.ret = <<>>

\* C8: iconv_open is called in a call exactly when the call resolved a name
\* that differs from the cached one; a call failing on a reserved slot
\* neither opens nor changes the cache; so a running process has opened
\* once more than the name changed between consecutive conversions.
C8_OpenIffNameChanged ==
    /\ (Converted /\ pc # "crashed") =>
          (last.opened <=> (last.rc = 0 /\ last.cs_new # last.before))
    /\ (Converted /\ last.rc # 0) => (~last.opened /\ cs_old = last.before)
    /\ pc = "running" => opens = IF convs = 0 THEN 0 ELSE 1 + changes

\* three calls: a conversion, a reserved field, and a conversion under the
\* same name, which opened nothing
C8_Witness ==
    /\ pc = "running"
    /\ calls = 3
    /\ convs = 2
    /\ opens = 1
    /\ Converted
    /\ last.used = cs_old
    /\ ~last.opened

\* C9: once a conversion was made, a running process holds exactly one open
\* descriptor, opened for the cached name; iconv runs with a descriptor for
\* the name resolved for the field; the old descriptor is closed before the
\* new one is opened; and a failed open ends the process with the cached
\* name unchanged.
C9_DescriptorMatchesCache ==
    /\ (pc = "running" /\ convs >= 1) => (engine = {cs_old} /\ cd = cs_old)
    /\ (pc = "running" /\ convs = 0) =>
          (engine = {} /\ cd = NULL /\ cs_old = "")
    /\ last.used # "none" => last.used = last.cs_new
    /\ last.peak <= 1
    /\ pc = "exited" =>
          (cs_old = last.before /\ cs_old # last.cs_new /\ cd = "FAILED")

\* the name changed and the descriptor was replaced
C9_Witness ==
    /\ pc = "running"
    /\ opens = 2
    /\ last.opened
    /\ last.before # ""
    /\ engine = {last.cs_new}

\* C10: for every field of at most MAX bytes, every byte written into buf
\* and into result, the terminating zero included, lands at an index below
\* MAX * 6.
C10_WritesWithinBuffers ==
    (Converted /\ Len(last.s) <= MAX) =>
        /\ last.bufTop < BufSize
        /\ last.resultTop < BufSize

=============================================================================
